---- MODULE Spec2Model ----
(***************************************************************************)
(* Model of package yaredact (redact.go): Redact, isFieldSensitive and     *)
(* redactReflectValue, over a heap of pointer targets, map stores and      *)
(* slice backing arrays.                                                   *)
(*                                                                         *)
(* Go strings are sequences of characters, so that strings.Split, the      *)
(* comparison with "-" and the comparison with "" are computed, not        *)
(* assumed.  The predicate isSensitive is the set of names it accepts.     *)
(***************************************************************************)
EXTENDS Integers, Sequences, FiniteSets, TLC

VARIABLES
  pc,       \* "callRedact" | "redacted" | "redactedAgain" | "callField" |
            \* "resolved": which call comes next or has been made;
            \* "concurrent": two calls of Redact are running
  heap,     \* sequence of cells; an address is an index, 0 is nil
  arg,      \* the value handed to Redact (static type argT)
  argT,     \* the type parameter T of Redact[T]
  arg0,     \* the input as a tree, recorded before the call
  heap0,    \* the heap before the call
  sens,     \* isSensitive: the set of names for which it returns true
  xf,       \* redactValue: which transform the caller passes
  out,      \* outcome of Redact: [st |-> "none" | "returned" | "panic" |
            \* "diverges", v |-> value, nc, md |-> calls of redactReflectValue
            \* made and their greatest depth]
  tlog,     \* arguments passed to redactValue, in call order
  plog,     \* names passed to isSensitive, in call order
  fld,      \* the field descriptor handed to isFieldSensitive
  fres,     \* outcome of isFieldSensitive: [ret |-> BOOLEAN, calls |-> names asked]
  again,    \* outcome of Redact called on the result of Redact, as out
  conc      \* two calls of Redact running concurrently on arg: per call its
            \* program (solo), position (pos), addresses (rel) and outcome (ret);
            \* own maps each cell to the call that allocated it, 0 for the input

vars == <<pc, heap, arg, argT, arg0, heap0, sens, xf, out, tlog, plog, fld, fres, again,
          conc>>

(***************************************************************************)
(* Bounds of the model.                                                    *)
(***************************************************************************)
MaxTags == 2      \* struct tags set on one field descriptor
MaxLen == 2       \* length of a slice
MaxKeys == 2      \* entries of a map

(***************************************************************************)
(* Strings.                                                                *)
(***************************************************************************)
Str(c) == <<c>>
Empty == <<>>
Dash == <<"-">>
Comma == ","

\* strings.Split(s, ","): the segments of s between commas, at least one.
RECURSIVE SplitFrom(_, _, _)
SplitFrom(s, i, cur) ==
  IF i > Len(s) THEN <<cur>>
  ELSE IF s[i] = Comma THEN <<cur>> \o SplitFrom(s, i + 1, <<>>)
  ELSE SplitFrom(s, i + 1, Append(cur, s[i]))

Split(s) == SplitFrom(s, 1, <<>>)

\* A faulty variant of tagNames: db is checked before json.
tagNamesDbFirst == <<"db", "json", "xml", "yaml", "form", "query", "bson">>

\* tagNames of isFieldSensitive, in the order of the slice literal.
tagNames == <<"json", "xml", "yaml", "form", "query", "db", "bson">>

TagKeys == {tagNames[i] : i \in 1..Len(tagNames)}

\* field.Tag.Get(tagName): the tag's value, "" when the tag is absent.
TagGet(field, tagName) == field.tags[tagName]

\* A faulty variant of tagFieldName: the whole tag value, options included.
tagFieldNameBroken(tagValue) == tagValue

\* tagFieldName := strings.Split(tagValue, ",")[0]
tagFieldName(tagValue) == Split(tagValue)[1]

\* A faulty variant of IsDash: no tag is skipped.
IsDashBroken(name) == FALSE

\* The dash test of the loop body: the tag is skipped.
IsDash(name) == name = Dash

\* The loop over tagNames from index i on.  calls accumulates the names the
\* predicate has been asked about.
RECURSIVE TagLoop(_, _, _, _)
TagLoop(field, sn, i, calls) ==
  IF i > Len(tagNames) THEN [ret |-> FALSE, calls |-> calls]
  ELSE LET tagValue == TagGet(field, tagNames[i]) IN
       IF tagValue # Empty
       THEN LET nm == tagFieldName(tagValue) IN
            IF IsDash(nm) THEN TagLoop(field, sn, i + 1, calls)
            ELSE IF nm \in sn THEN [ret |-> TRUE, calls |-> Append(calls, nm)]
            ELSE TagLoop(field, sn, i + 1, Append(calls, nm))
       ELSE TagLoop(field, sn, i + 1, calls)

\* isFieldSensitive(field, isSensitive)
isFieldSensitive(field, sn) ==
  IF field.name \in sn THEN [ret |-> TRUE, calls |-> <<field.name>>]
  ELSE TagLoop(field, sn, 1, <<field.name>>)

(***************************************************************************)
(* Types (reflect.Type).  A struct type is named; its fields are given by  *)
(* StructDef.                                                              *)
(***************************************************************************)
TString == [k |-> "string"]
TInt == [k |-> "int"]
TBool == [k |-> "bool"]
TAny == [k |-> "iface"]
TPtr(e) == [k |-> "ptr", e |-> e]
TSlice(e) == [k |-> "slice", e |-> e]
TArray(n, e) == [k |-> "array", n |-> n, e |-> e]
TMap(kt, e) == [k |-> "map", kt |-> kt, e |-> e]
TStruct(name) == [k |-> "struct", name |-> name]

NoTags == [tk \in TagKeys |-> Empty]

\* A field descriptor (reflect.StructField): exported is PkgPath = "".
Field(name, exported, tags, type) ==
  [name |-> name, exported |-> exported, tags |-> tags, type |-> type]

\* Names used by the struct types and map keys of the model.
nId == <<"I", "d">>
nPw == <<"P", "w">>
nAge == <<"A", "g", "e">>
nDt == <<"D", "t">>
nDb == <<"D", "b">>
nid == <<"i", "d">>
npw == <<"p", "w">>
nIn == <<"I", "n">>
tagPwOpt == <<"p", "w", ",", "o">>
\* reflect.Value.String() of a value that is not a string: "<int Value>".
IntValueStr == <<"<", "i", "n", "t", " ", "V", "a", "l", "u", "e", ">">>

StructNames == {"User", "Tagged", "Ptrs", "Inner", "Outer", "Conf", "Box", "PBox", "Toks",
                "Priv", "Hold", "Cfg", "Node", "Bag"}

StructDef(name) ==
  CASE name = "User" ->
         <<Field(nId, TRUE, NoTags, TString),
           Field(nPw, TRUE, NoTags, TString),
           Field(nAge, TRUE, NoTags, TInt)>>
    [] name = "Tagged" ->
         <<Field(nId, TRUE, [NoTags EXCEPT !["json"] = tagPwOpt], TString),
           Field(nDt, TRUE, [NoTags EXCEPT !["json"] = Dash], TString),
           Field(nDb, TRUE, [NoTags EXCEPT !["json"] = Dash, !["db"] = npw], TString),
           Field(npw, FALSE, NoTags, TString)>>
    [] name = "Ptrs" ->
         <<Field(nId, TRUE, NoTags, TPtr(TString)),
           Field(nPw, TRUE, NoTags, TPtr(TString))>>
    [] name = "Inner" ->
         <<Field(nPw, TRUE, NoTags, TString),
           Field(nAge, TRUE, NoTags, TInt)>>
    [] name = "Outer" ->
         <<Field(nIn, TRUE, NoTags, TStruct("Inner")),
           Field(nPw, TRUE, NoTags, TStruct("Inner"))>>
    [] name = "Conf" ->
         <<Field(nPw, TRUE, NoTags, TInt),
           Field(nId, TRUE, [NoTags EXCEPT !["yaml"] = npw], TAny)>>
    [] name = "Box" ->
         <<Field(nId, TRUE, NoTags, TPtr(TStruct("Inner"))),
           Field(nDt, TRUE, NoTags, TArray(1, TAny))>>
    [] name = "PBox" ->
         <<Field(nPw, TRUE, NoTags, TPtr(TStruct("Inner")))>>
    [] name = "Toks" ->
         <<Field(nPw, TRUE, NoTags, TSlice(TString))>>
    [] name = "Priv" ->
         <<Field(nId, TRUE, NoTags, TString),
           Field(npw, FALSE, NoTags, TString)>>
    [] name = "Hold" ->
         <<Field(nPw, TRUE, NoTags, TStruct("Priv")),
           Field(nIn, TRUE, NoTags, TStruct("Priv"))>>
    [] name = "Cfg" ->
         <<Field(nPw, TRUE, NoTags, TMap(TString, TString))>>
    [] name = "Bag" ->
         <<Field(nPw, TRUE, NoTags, TSlice(TBool)),
           Field(nid, FALSE, NoTags, TSlice(TBool))>>
    [] name = "Node" ->
         <<Field(nId, TRUE, NoTags, TString),
           Field(nIn, TRUE, NoTags, TPtr(TStruct("Node"))),
           Field(nPw, TRUE, NoTags, TPtr(TStruct("Node")))>>

NumField(t) == Len(StructDef(t.name))

(***************************************************************************)
(* Values.  A value on the heap refers to its storage by address a (0 is   *)
(* nil); a tree holds the storage's content in place.  Scalars, structs,   *)
(* arrays and interface boxes have the same form in both.                  *)
(***************************************************************************)
VStr(s) == [k |-> "string", s |-> s]
VInt(n) == [k |-> "int", n |-> n]
VBool(b) == [k |-> "bool", b |-> b]
VStruct(t, f) == [k |-> "struct", t |-> t, f |-> f]
VArray(t, e) == [k |-> "array", t |-> t, e |-> e]
VNilIface == [k |-> "iface", nil |-> TRUE]
VIface(v) == [k |-> "iface", nil |-> FALSE, v |-> v]
\* reflect.ValueOf(nil): the zero reflect.Value, Kind Invalid.
VInvalid == [k |-> "invalid"]

VPtr(t, a) == [k |-> "ptr", t |-> t, a |-> a]
VMap(t, a) == [k |-> "map", t |-> t, a |-> a]
VSlice(t, a, len, cap) == [k |-> "slice", t |-> t, a |-> a, len |-> len, cap |-> cap]

TNilRef(kind, t) == [k |-> kind, t |-> t, nil |-> TRUE]
TreePtr(t, v) == [k |-> "ptr", t |-> t, nil |-> FALSE, v |-> v]
TreeMap(t, m) == [k |-> "map", t |-> t, nil |-> FALSE, m |-> m]
TreeSlice(t, e, cap) == [k |-> "slice", t |-> t, nil |-> FALSE, e |-> e, cap |-> cap]

\* v.Type()
TypeOf(v) ==
  CASE v.k = "string" -> TString
    [] v.k = "int" -> TInt
    [] v.k = "bool" -> TBool
    [] v.k = "iface" -> TAny
    [] OTHER -> v.t

IsNil(v) ==
  CASE v.k \in {"ptr", "map", "slice"} -> v.a = 0
    [] v.k = "iface" -> v.nil
    [] OTHER -> FALSE

\* The zero value of a type (reflect.New(t).Elem(), reflect.Zero).
RECURSIVE ZeroOf(_)
ZeroOf(t) ==
  CASE t.k = "string" -> VStr(Empty)
    [] t.k = "int" -> VInt(0)
    [] t.k = "bool" -> VBool(FALSE)
    [] t.k = "iface" -> VNilIface
    [] t.k = "ptr" -> VPtr(t, 0)
    [] t.k = "map" -> VMap(t, 0)
    [] t.k = "slice" -> VSlice(t, 0, 0, 0)
    [] t.k = "array" -> VArray(t, [i \in 1..t.n |-> ZeroOf(t.e)])
    [] t.k = "struct" ->
         VStruct(t, [i \in 1..NumField(t) |-> ZeroOf(StructDef(t.name)[i].type)])

(***************************************************************************)
(* The heap.  A cell is a pointer target, a map store or the backing array *)
(* of a slice.  Allocation appends a cell; existing cells keep their       *)
(* address.                                                                *)
(***************************************************************************)
PtrCell(v) == [c |-> "ptr", v |-> v]
MapCell(m) == [c |-> "map", m |-> m]
SliceCell(e) == [c |-> "slice", e |-> e]

\* Some enumeration of a finite set as a sequence.
RECURSIVE SetToSeq(_)
SetToSeq(S) ==
  IF S = {} THEN <<>>
  ELSE LET x == CHOOSE y \in S : TRUE IN <<x>> \o SetToSeq(S \ {x})

IndexOf(seq, x) == CHOOSE i \in 1..Len(seq) : seq[i] = x

\* Lay a tree out on the heap: the value of a Go composite literal.
RECURSIVE Load(_, _)
RECURSIVE LoadSeq(_, _, _, _)
Load(tr, h) ==
  CASE tr.k \in {"string", "int", "bool"} -> [v |-> tr, h |-> h]
    [] tr.k = "iface" ->
         IF tr.nil THEN [v |-> tr, h |-> h]
         ELSE LET r == Load(tr.v, h) IN [v |-> VIface(r.v), h |-> r.h]
    [] tr.k = "struct" ->
         LET r == LoadSeq(tr.f, 1, h, <<>>) IN [v |-> VStruct(tr.t, r.vs), h |-> r.h]
    [] tr.k = "array" ->
         LET r == LoadSeq(tr.e, 1, h, <<>>) IN [v |-> VArray(tr.t, r.vs), h |-> r.h]
    [] tr.k = "ptr" ->
         IF tr.nil THEN [v |-> VPtr(tr.t, 0), h |-> h]
         ELSE LET r == Load(tr.v, h)
                  h2 == Append(r.h, PtrCell(r.v))
              IN [v |-> VPtr(tr.t, Len(h2)), h |-> h2]
    [] tr.k = "map" ->
         IF tr.nil THEN [v |-> VMap(tr.t, 0), h |-> h]
         ELSE LET ks == SetToSeq(DOMAIN tr.m)
                  r == LoadSeq([i \in 1..Len(ks) |-> tr.m[ks[i]]], 1, h, <<>>)
                  h2 == Append(r.h, MapCell([key \in DOMAIN tr.m |-> r.vs[IndexOf(ks, key)]]))
              IN [v |-> VMap(tr.t, Len(h2)), h |-> h2]
    [] tr.k = "slice" ->
         IF tr.nil THEN [v |-> VSlice(tr.t, 0, 0, 0), h |-> h]
         ELSE LET r == LoadSeq(tr.e, 1, h, <<>>)
                  n == Len(tr.e)
                  h2 == Append(r.h, SliceCell([i \in 1..tr.cap |->
                                      IF i <= n THEN r.vs[i] ELSE ZeroOf(tr.t.e)]))
              IN [v |-> VSlice(tr.t, Len(h2), n, tr.cap), h |-> h2]

LoadSeq(trs, i, h, acc) ==
  IF i > Len(trs) THEN [vs |-> acc, h |-> h]
  ELSE LET r == Load(trs[i], h) IN LoadSeq(trs, i + 1, r.h, Append(acc, r.v))

\* The tree a value denotes in a heap: what reflect.DeepEqual compares, and
\* the capacity of slices besides.
RECURSIVE Snapshot(_, _)
Snapshot(v, h) ==
  CASE v.k \in {"string", "int", "bool", "invalid"} -> v
    [] v.k = "iface" -> IF v.nil THEN v ELSE VIface(Snapshot(v.v, h))
    [] v.k = "struct" -> VStruct(v.t, [i \in 1..Len(v.f) |-> Snapshot(v.f[i], h)])
    [] v.k = "array" -> VArray(v.t, [i \in 1..Len(v.e) |-> Snapshot(v.e[i], h)])
    [] v.k = "ptr" ->
         IF v.a = 0 THEN TNilRef("ptr", v.t) ELSE TreePtr(v.t, Snapshot(h[v.a].v, h))
    [] v.k = "map" ->
         IF v.a = 0 THEN TNilRef("map", v.t)
         ELSE TreeMap(v.t, [key \in DOMAIN h[v.a].m |-> Snapshot(h[v.a].m[key], h)])
    [] v.k = "slice" ->
         IF v.a = 0 THEN TNilRef("slice", v.t)
         ELSE TreeSlice(v.t, [i \in 1..v.len |-> Snapshot(h[v.a].e[i], h)], v.cap)

(***************************************************************************)
(* The callbacks.  isSensitive is the set sens.  redactValue is one of the *)
(* transforms below; its argument and result are values of type any, the   *)
(* nil interface being VInvalid.                                           *)
(***************************************************************************)
Stars == <<"*">>

Transforms == {"strings", "stars", "zero", "nil"}

ApplyXf(f, v) ==
  CASE f = "strings" -> IF v.k = "string" THEN VStr(Stars) ELSE v
    [] f = "stars" -> VStr(Stars)
    [] f = "zero" -> VInt(0)
    [] f = "nil" -> VInvalid

(***************************************************************************)
(* reflect helpers.                                                        *)
(***************************************************************************)
\* V.AssignableTo(T), for the types of the model: identical types, or T is
\* the empty interface.
AssignableTo(V, T) == V = T \/ T.k = "iface"

\* v.Interface(): the value as an any; an interface-kinded Value yields what
\* it holds, nil for a nil interface.
Interface(v) == IF v.k = "iface" THEN (IF v.nil THEN VInvalid ELSE v.v) ELSE v

\* What a slot of type T holds after Set(x): x itself, boxed when T is an
\* interface type and x is concrete.
Stored(x, T) == IF T.k = "iface" /\ x.k # "iface" THEN VIface(x) ELSE x

\* Value.Set / SetMapIndex panic unless x is valid and assignable to T.
CanSet(x, T) == x.k # "invalid" /\ AssignableTo(TypeOf(x), T)

\* The state a call starts in: the heap as it is, nothing logged, no call
\* of redactReflectValue active (stk), none made (nc), depth 0 reached (md).
StartState(h) ==
  [h |-> h, tl |-> <<>>, pl |-> <<>>, ops |-> <<>>,
   stk |-> <<>>, nc |-> 0, md |-> 0, div |-> FALSE]

\* The allocations and stores of a call, in program order.
OpNew(a, c) == [op |-> "new", a |-> a, c |-> c]
OpSetPtr(a, x) == [op |-> "setptr", a |-> a, x |-> x]
OpSetMap(a, key, x) == [op |-> "setmap", a |-> a, key |-> key, x |-> x]
OpSetIdx(a, i, x) == [op |-> "setidx", a |-> a, i |-> i, x |-> x]

Ok(v, st) == [ok |-> TRUE, v |-> v, st |-> st]
Panic(st) == [ok |-> FALSE, v |-> VInvalid, st |-> st]

\* The call stack of redactReflectValue.  A call is entered with its
\* argument pushed; it is left, with a result, with the argument popped.  A
\* call entered with the argument of a call that is still active repeats
\* that call, since what a call does is determined by its argument, the
\* callbacks and the cells of the input, which are never written: the
\* recursion has no end, and the call produces no result (div).
Reentered(v, st) == \E i \in 1..Len(st.stk) : st.stk[i] = v
Enter(v, st) ==
  [st EXCEPT !.stk = Append(@, v),
             !.nc = @ + 1,
             !.md = IF Len(st.stk) + 1 > @ THEN Len(st.stk) + 1 ELSE @]
Leave(r) == IF r.ok THEN [r EXCEPT !.st.stk = SubSeq(@, 1, Len(@) - 1)] ELSE r
Diverge(st) == [ok |-> FALSE, v |-> VInvalid, st |-> [st EXCEPT !.div = TRUE]]

\* A faulty variant of NewPtr: the cell of the input pointer is overwritten.
NewPtrInPlace(st, old, val) ==
  [a |-> old, st |-> [st EXCEPT !.h = [@ EXCEPT ![old] = PtrCell(val)],
                                !.ops = Append(@, OpSetPtr(old, val))]]

\* reflect.New(type) followed by ptr.Elem().Set(val): a fresh cell.
NewPtr(st, old, val) ==
  [a |-> Len(st.h) + 1,
   st |-> [st EXCEPT !.h = Append(@, PtrCell(val)),
                     !.ops = @ \o <<OpNew(Len(st.h) + 1, PtrCell(ZeroOf(TypeOf(val)))),
                                    OpSetPtr(Len(st.h) + 1, val)>>]]

\* reflect.MakeMap(type): a fresh, empty map.
MakeMap(st) ==
  [a |-> Len(st.h) + 1,
   st |-> [st EXCEPT !.h = Append(@, MapCell(<<>>)),
                     !.ops = Append(@, OpNew(Len(st.h) + 1, MapCell(<<>>)))]]

\* A faulty variant of MakeSlice: an empty slice is made nil.
MakeSliceNilIfEmpty(st, t, len, cap) ==
  IF len = 0 THEN [v |-> VSlice(t, 0, 0, 0), st |-> st]
  ELSE [v |-> VSlice(t, Len(st.h) + 1, len, cap),
        st |-> [st EXCEPT !.h = Append(@, SliceCell([i \in 1..cap |-> ZeroOf(t.e)])),
                          !.ops = Append(@, OpNew(Len(st.h) + 1,
                                                  SliceCell([i \in 1..cap |-> ZeroOf(t.e)])))]]

\* A faulty variant of MakeSlice: the capacity is the length.
MakeSliceShort(st, t, len, cap) ==
  [v |-> VSlice(t, Len(st.h) + 1, len, len),
   st |-> [st EXCEPT !.h = Append(@, SliceCell([i \in 1..len |-> ZeroOf(t.e)])),
                     !.ops = Append(@, OpNew(Len(st.h) + 1,
                                             SliceCell([i \in 1..len |-> ZeroOf(t.e)])))]]

\* reflect.MakeSlice(type, len, cap): a fresh backing array of zero values.
MakeSlice(st, t, len, cap) ==
  [v |-> VSlice(t, Len(st.h) + 1, len, cap),
   st |-> [st EXCEPT !.h = Append(@, SliceCell([i \in 1..cap |-> ZeroOf(t.e)])),
                     !.ops = Append(@, OpNew(Len(st.h) + 1,
                                             SliceCell([i \in 1..cap |-> ZeroOf(t.e)])))]]

\* result.SetMapIndex(key, x) on the store at address a.
SetMapIndex(st, a, key, x) ==
  [st EXCEPT !.h = [@ EXCEPT ![a] = MapCell(
      [kk \in (DOMAIN @.m) \cup {key} |-> IF kk = key THEN x ELSE @.m[kk]])],
             !.ops = Append(@, OpSetMap(a, key, x))]

\* result.Index(i).Set(x) on the backing array at address a.
SetIndex(st, a, i, x) ==
  [st EXCEPT !.h = [@ EXCEPT ![a] = SliceCell([@.e EXCEPT ![i] = x])],
             !.ops = Append(@, OpSetIdx(a, i, x))]

\* The string the map case compares with the predicate: key.String() for a
\* string key, reflect.ValueOf(key.Interface()).String() for any other.
KeyStr(key) == IF key.k = "string" THEN key.s ELSE IntValueStr

\* v.MapKeys(): the keys of the store in the order ord visits them.
\* A faulty variant of MapKeys: the last key of the order is left out.
MapKeysButLast(m, ord) ==
  SubSeq(SelectSeq(ord, LAMBDA key : key \in DOMAIN m), 1,
         Len(SelectSeq(ord, LAMBDA key : key \in DOMAIN m)) - 1)

MapKeys(m, ord) == SelectSeq(ord, LAMBDA key : key \in DOMAIN m)

(***************************************************************************)
(* redactReflectValue.  cx = [sens, xf, ord] is fixed during a call; st =  *)
(* [h, tl, pl, ops, stk, nc, md, div] is the heap, the two call logs, the   *)
(* allocations and stores made so far, the arguments of the active calls   *)
(* of redactReflectValue, the number of calls made and the greatest depth  *)
(* reached.  The result is [ok, v, st]; ok is FALSE when the call panics   *)
(* or, with st.div, when the recursion has no end.                         *)
(***************************************************************************)
RECURSIVE redactReflectValue(_, _, _)
RECURSIVE StructLoop(_, _, _, _, _)
RECURSIVE MapLoop(_, _, _, _, _, _)
RECURSIVE SliceLoop(_, _, _, _, _)
RECURSIVE ArrayLoop(_, _, _, _, _)

\* A faulty variant of ScalarCase: the transform is applied to a string.
ScalarCaseRedacting(v, cx, st) ==
  Ok(IF v.k = "string" THEN VStr(Stars) ELSE v, [st EXCEPT !.tl = Append(@, v)])

\* A faulty variant of ScalarCase: a string grows by one character.
ScalarCaseAppending(v, cx, st) ==
  Ok(IF v.k = "string" THEN VStr(Append(v.s, "*")) ELSE v, st)

\* case reflect.String and default: the value is returned as it is.
ScalarCase(v, cx, st) == Ok(v, st)

\* A faulty variant of PtrCase: a nil pointer becomes a pointer to a zero
\* value.
PtrCaseAllocatingNil(v, cx, st) ==
  IF v.a = 0
  THEN LET p == NewPtr(st, v.a, ZeroOf(v.t.e)) IN Ok(VPtr(v.t, p.a), p.st)
  ELSE LET elem == st.h[v.a].v
           r == redactReflectValue(elem, cx, st)
       IN IF ~r.ok THEN r
          ELSE LET p == NewPtr(r.st, v.a, r.v)
               IN Ok(VPtr(TPtr(TypeOf(r.v)), p.a), p.st)

\* A faulty variant of PtrCase: the pointer is returned as it is, its
\* pointee not visited.
PtrCaseSharing(v, cx, st) == Ok(v, st)

\* case reflect.Ptr
PtrCase(v, cx, st) ==
  IF v.a = 0 THEN Ok(v, st)
  ELSE LET elem == st.h[v.a].v
           r == redactReflectValue(elem, cx, st)
       IN IF ~r.ok THEN r
          ELSE LET p == NewPtr(r.st, v.a, r.v)
               IN Ok(VPtr(TPtr(TypeOf(r.v)), p.a), p.st)

\* case reflect.Interface
InterfaceCase(v, cx, st) ==
  IF v.nil THEN Ok(v, st) ELSE redactReflectValue(v.v, cx, st)

\* A faulty variant of SensitiveField: only a string is replaced, any other
\* value is descended into.
SensitiveFieldSkipping(field, cx, st) ==
  LET originalValue == Interface(field)
      redactedValue == ApplyXf(cx.xf, originalValue)
      st1 == [st EXCEPT !.tl = Append(@, originalValue)]
  IN IF redactedValue.k = "invalid" THEN Panic(st1)
     ELSE IF field.k = "string" /\ redactedValue.k = "string"
     THEN Ok(redactedValue, st1)
     ELSE redactReflectValue(field, cx, st1)

\* The sensitive branch for any other field.
SensitiveField(field, cx, st) ==
  LET originalValue == Interface(field)
      redactedValue == ApplyXf(cx.xf, originalValue)
      st1 == [st EXCEPT !.tl = Append(@, originalValue)]
  IN IF redactedValue.k = "invalid" THEN Panic(st1)
     ELSE IF AssignableTo(TypeOf(redactedValue), TypeOf(field))
     THEN Ok(redactedValue, st1)
     ELSE redactReflectValue(field, cx, st1)

\* A faulty variant of SensitivePtrField: the pointer is not dereferenced.
SensitivePtrFieldNoDeref(field, cx, st) == SensitiveField(field, cx, st)

\* The sensitive branch for a field holding a non-nil pointer: the value
\* handed to result.Field(i).Set.
SensitivePtrField(field, cx, st) ==
  LET elem == st.h[field.a].v
      originalValue == Interface(elem)
      redactedValue == ApplyXf(cx.xf, originalValue)
      st1 == [st EXCEPT !.tl = Append(@, originalValue)]
  IN IF redactedValue.k = "invalid" THEN Panic(st1)
     ELSE IF AssignableTo(TypeOf(redactedValue), TypeOf(elem))
     THEN LET p == NewPtr(st1, field.a, redactedValue)
          IN Ok(VPtr(TPtr(TypeOf(redactedValue)), p.a), p.st)
     ELSE redactReflectValue(field, cx, st1)

\* A faulty variant of FieldStep: no field is treated as sensitive.
FieldStepNeverSensitive(v, i, cx, st) == redactReflectValue(v.f[i], cx, st)

\* The body of the loop over the fields of a struct, for field i: the value
\* handed to result.Field(i).Set.
FieldStep(v, i, cx, st) ==
  LET field == v.f[i]
      fieldType == StructDef(v.t.name)[i]
      fs == isFieldSensitive(fieldType, cx.sens)
      st1 == [st EXCEPT !.pl = @ \o fs.calls]
  IN IF fs.ret
     THEN IF field.k = "ptr" /\ field.a # 0
          THEN SensitivePtrField(field, cx, st1)
          ELSE SensitiveField(field, cx, st1)
     ELSE redactReflectValue(field, cx, st1)

\* A faulty variant of StructLoop: unexported fields are processed like the
\* exported ones.
StructLoopAllFields(v, i, res, cx, st) ==
  IF i > NumField(v.t) THEN Ok(res, st)
  ELSE LET fieldType == StructDef(v.t.name)[i]
           r == FieldStep(v, i, cx, st)
       IN IF ~r.ok THEN r
          ELSE IF ~CanSet(r.v, fieldType.type) THEN Panic(r.st)
          ELSE StructLoop(v, i + 1,
                          [res EXCEPT !.f[i] = Stored(r.v, fieldType.type)], cx, r.st)

\* case reflect.Struct: res is the new struct, zero at first.
StructLoop(v, i, res, cx, st) ==
  IF i > NumField(v.t) THEN Ok(res, st)
  ELSE LET fieldType == StructDef(v.t.name)[i] IN
       IF ~fieldType.exported THEN StructLoop(v, i + 1, res, cx, st)
       ELSE LET r == FieldStep(v, i, cx, st) IN
            IF ~r.ok THEN r
            ELSE IF ~CanSet(r.v, fieldType.type) THEN Panic(r.st)
            ELSE StructLoop(v, i + 1,
                            [res EXCEPT !.f[i] = Stored(r.v, fieldType.type)], cx, r.st)

\* A faulty variant of KeyCheck: the empty key is not set apart.
KeyCheckNoEmpty(key, cx) ==
  [ret |-> KeyStr(key) \in cx.sens, calls |-> <<KeyStr(key)>>]

\* Whether the map case treats the key as sensitive, and the predicate
\* calls made to decide it.
KeyCheck(key, cx) ==
  LET keyStr == KeyStr(key) IN
  IF keyStr # Empty
  THEN [ret |-> keyStr \in cx.sens, calls |-> <<keyStr>>]
  ELSE [ret |-> FALSE, calls |-> <<>>]

\* A faulty variant of MapOriginal: a non-nil pointer is dereferenced, as
\* the struct case does for a sensitive pointer field.
MapOriginalDeref(value, st) ==
  IF value.k = "ptr" /\ value.a # 0 THEN Interface(st.h[value.a].v) ELSE Interface(value)

\* originalValue := value.Interface(), for the value of a sensitive key.
MapOriginal(value, st) == Interface(value)

\* case reflect.Map: the loop over keys, a the address of the new map.
MapLoop(v, keys, i, a, cx, st) ==
  IF i > Len(keys) THEN Ok(VMap(v.t, a), st)
  ELSE LET key == keys[i]
           value == st.h[v.a].m[key]
           kc == KeyCheck(key, cx)
           st1 == [st EXCEPT !.pl = @ \o kc.calls]
       IN IF kc.ret
          THEN LET originalValue == MapOriginal(value, st1)
                   redactedValue == ApplyXf(cx.xf, originalValue)
                   st2 == [st1 EXCEPT !.tl = Append(@, originalValue)]
               IN IF redactedValue.k = "invalid"
                  THEN MapLoop(v, keys, i + 1, a, cx, st2)
                  ELSE IF ~AssignableTo(TypeOf(redactedValue), v.t.e) THEN Panic(st2)
                  ELSE MapLoop(v, keys, i + 1, a, cx,
                               SetMapIndex(st2, a, key, Stored(redactedValue, v.t.e)))
          ELSE LET r == redactReflectValue(value, cx, st1) IN
               IF ~r.ok THEN r
               ELSE IF ~CanSet(r.v, v.t.e) THEN Panic(r.st)
               ELSE MapLoop(v, keys, i + 1, a, cx,
                            SetMapIndex(r.st, a, key, Stored(r.v, v.t.e)))

\* A faulty variant of ElemCase: the element is boxed in an interface value
\* first, which the traversal then has to unbox by one more call.
ElemCaseBoxing(elem, cx, st) == redactReflectValue(VIface(elem), cx, st)

\* A faulty variant of ElemCase: the element is copied as it is.
ElemCaseCopying(elem, cx, st) == Ok(elem, st)

\* The redaction of one element of a slice or an array.
ElemCase(elem, cx, st) == redactReflectValue(elem, cx, st)

\* case reflect.Slice: the loop over indices, res the new slice.
SliceLoop(v, i, res, cx, st) ==
  IF i > v.len THEN Ok(res, st)
  ELSE LET r == ElemCase(st.h[v.a].e[i], cx, st) IN
       IF ~r.ok THEN r
       ELSE IF ~CanSet(r.v, v.t.e) THEN Panic(r.st)
       ELSE SliceLoop(v, i + 1, res, cx, SetIndex(r.st, res.a, i, Stored(r.v, v.t.e)))

\* case reflect.Array: res is the new array, zero at first.
ArrayLoop(v, i, res, cx, st) ==
  IF i > Len(v.e) THEN Ok(res, st)
  ELSE LET r == ElemCase(v.e[i], cx, st) IN
       IF ~r.ok THEN r
       ELSE IF ~CanSet(r.v, v.t.e) THEN Panic(r.st)
       ELSE ArrayLoop(v, i + 1, [res EXCEPT !.e[i] = Stored(r.v, v.t.e)], cx, r.st)

\* switch v.Kind()
Switch(v, cx, st) ==
  CASE v.k = "invalid" -> Ok(v, st)
    [] v.k = "ptr" -> PtrCase(v, cx, st)
    [] v.k = "iface" -> InterfaceCase(v, cx, st)
    [] v.k = "struct" -> StructLoop(v, 1, ZeroOf(v.t), cx, st)
    [] v.k = "map" ->
         IF v.a = 0 THEN Ok(v, st)
         ELSE LET m == MakeMap(st)
              IN MapLoop(v, MapKeys(st.h[v.a].m, cx.ord), 1, m.a, cx, m.st)
    [] v.k = "slice" ->
         IF v.a = 0 THEN Ok(v, st)
         ELSE LET s == MakeSlice(st, v.t, v.len, v.cap)
              IN SliceLoop(v, 1, s.v, cx, s.st)
    [] v.k = "array" -> ArrayLoop(v, 1, ZeroOf(v.t), cx, st)
    [] OTHER -> ScalarCase(v, cx, st)

redactReflectValue(v, cx, st) ==
  IF Reentered(v, st) THEN Diverge(st) ELSE Leave(Switch(v, cx, Enter(v, st)))

\* return result.(T) for the result r of redactReflectValue: the assertion
\* panics unless the dynamic type of the result is T (any T an interface
\* type holds); a panic of the traversal has ended the call before it, and
\* a recursion without end never reaches it.
TypeAssert(r, T) ==
  IF ~r.ok THEN [st |-> IF r.st.div THEN "diverges" ELSE "panic", v |-> VInvalid, s |-> r.st]
  ELSE IF T.k = "iface" THEN [st |-> "returned", v |-> VIface(r.v), s |-> r.st]
  ELSE IF TypeOf(r.v) = T THEN [st |-> "returned", v |-> r.v, s |-> r.st]
  ELSE [st |-> "panic", v |-> VInvalid, s |-> r.st]

\* Redact[T](arg, isSensitive, redactValue): [st |-> how the call ended,
\* v |-> the value returned, s |-> the final state of the traversal].
Redact(a, T, cx, h) ==
  IF Interface(a).k = "invalid"
  THEN [st |-> "returned", v |-> ZeroOf(T), s |-> StartState(h)]
  ELSE TypeAssert(redactReflectValue(Interface(a), cx, StartState(h)), T)

(***************************************************************************)
(* The inputs of the model: every tree of the root types, within bounds.   *)
(***************************************************************************)
StrLeaves == {Empty, <<"a">>}
IntLeaves == {7}
\* The concrete types an interface value of the model holds.
BoxedTypes == {TString, TStruct("Inner")}
StrKeys == {VStr(Empty), VStr(npw), VStr(nid)}
IntKeys == {VInt(1), VInt(2)}

RECURSIVE Product(_)
Product(sets) ==
  IF sets = <<>> THEN {<<>>}
  ELSE {<<x>> \o r : x \in Head(sets), r \in Product(Tail(sets))}

SmallSubsets(S, n) == {ks \in SUBSET S : Cardinality(ks) <= n}

RECURSIVE TreesOf(_)
TreesOf(t) ==
  CASE t.k = "string" -> {VStr(x) : x \in StrLeaves}
    [] t.k = "int" -> {VInt(n) : n \in IntLeaves}
    [] t.k = "bool" -> {VBool(TRUE)}
    [] t.k = "iface" ->
         {VNilIface} \cup
         {VIface(x) : x \in UNION {IF bt = TString THEN {VStr(<<"a">>)} ELSE TreesOf(bt)
                                     : bt \in BoxedTypes}}
    [] t.k = "ptr" -> {TNilRef("ptr", t)} \cup {TreePtr(t, x) : x \in TreesOf(t.e)}
    [] t.k = "struct" ->
         {VStruct(t, f) :
            f \in Product([i \in 1..NumField(t) |-> TreesOf(StructDef(t.name)[i].type)])}
    [] t.k = "array" -> {VArray(t, e) : e \in [1..t.n -> TreesOf(t.e)]}
    [] t.k = "slice" ->
         {TNilRef("slice", t)} \cup
         {TreeSlice(t, ec[1], Len(ec[1]) + ec[2]) :
            ec \in (UNION {[1..n -> TreesOf(t.e)] : n \in 0..MaxLen}) \X {0, 1}}
    [] t.k = "map" ->
         {TNilRef("map", t)} \cup
         {TreeMap(t, m) :
            m \in UNION {[ks -> TreesOf(t.e)] :
                           ks \in SmallSubsets(IF t.kt = TString THEN StrKeys ELSE IntKeys,
                                               MaxKeys)}}

RootTypes ==
  {TString, TInt, TBool, TAny,
   TStruct("User"), TStruct("Tagged"), TStruct("Ptrs"), TStruct("Outer"),
   TStruct("Conf"), TStruct("Box"), TStruct("PBox"), TStruct("Toks"),
   TStruct("Hold"), TStruct("Cfg"), TStruct("Bag"),
   TMap(TString, TString), TMap(TString, TAny), TMap(TInt, TString),
   TMap(TString, TPtr(TString)),
   TSlice(TString), TSlice(TStruct("User")), TSlice(TPtr(TStruct("Inner"))),
   TArray(2, TString),
   TPtr(TString), TPtr(TStruct("User")), TPtr(TAny), TPtr(TMap(TString, TAny))}

Inputs == UNION {TreesOf(t) : t \in RootTypes}

\* The names a predicate of the model may accept.
PredNames == {nPw, npw, Empty, Dash, IntValueStr}
Preds == SUBSET PredNames

\* The keys of the maps of a tree, and the orders MapKeys may return them in.
RECURSIVE KeysIn(_)
KeysIn(tr) ==
  CASE tr.k \in {"string", "int", "bool"} -> {}
    [] tr.k = "iface" -> IF tr.nil THEN {} ELSE KeysIn(tr.v)
    [] tr.k = "struct" -> UNION {KeysIn(tr.f[i]) : i \in 1..Len(tr.f)}
    [] tr.k = "array" -> UNION {KeysIn(tr.e[i]) : i \in 1..Len(tr.e)}
    [] tr.k = "ptr" -> IF tr.nil THEN {} ELSE KeysIn(tr.v)
    [] tr.k = "slice" -> IF tr.nil THEN {} ELSE UNION {KeysIn(tr.e[i]) : i \in 1..Len(tr.e)}
    [] tr.k = "map" ->
         IF tr.nil THEN {}
         ELSE DOMAIN tr.m \cup UNION {KeysIn(tr.m[key]) : key \in DOMAIN tr.m}

Orders(S) == {o \in [1..Cardinality(S) -> S] : \A x \in S : \E i \in DOMAIN o : o[i] = x}

\* The field descriptors handed to isFieldSensitive directly.
TagVals == {npw, Dash, tagPwOpt, <<",", "o">>, <<"-", ",", "o">>}
TagSets ==
  UNION {{[tk \in TagKeys |-> IF tk \in ks THEN f[tk] ELSE Empty] : f \in [ks -> TagVals]}
           : ks \in SmallSubsets(TagKeys, MaxTags)}
\* Two descriptors with more tags: one with all seven set, one with tags
\* that are absent or named "-" between tags that are asked about.
AllTags ==
  [tk \in TagKeys |->
     CASE tk = "json" -> <<"j">>
       [] tk = "xml" -> <<"x">>
       [] tk = "yaml" -> <<",", "o">>
       [] tk = "form" -> npw
       [] tk = "query" -> <<"q">>
       [] tk = "db" -> tagPwOpt
       [] tk = "bson" -> <<"b">>]
GapTags ==
  [tk \in TagKeys |->
     CASE tk = "json" -> <<"j">>
       [] tk = "xml" -> Dash
       [] tk = "yaml" -> Empty
       [] tk = "form" -> <<",", "o">>
       [] tk = "query" -> <<"-", ",", "o">>
       [] tk = "db" -> npw
       [] tk = "bson" -> <<"b">>]
Fields == {Field(nPw, TRUE, tags, TString) : tags \in TagSets \cup {AllTags, GapTags}}

NoField == Field(Empty, FALSE, NoTags, TString)
NoOut == [st |-> "none", v |-> VInvalid, nc |-> 0, md |-> 0]
NoRes == [ret |-> FALSE, calls |-> <<>>]
NoConc == [solo |-> <<>>, pos |-> <<>>, rel |-> <<>>, own |-> <<>>, ret |-> <<>>,
           foreign |-> FALSE]

(***************************************************************************)
(* The state machine: a caller holding a value and two callbacks calls     *)
(* Redact, or hands a field descriptor to isFieldSensitive.                *)
(***************************************************************************)
InitRedact ==
  /\ pc = "callRedact"
  /\ arg0 \in Inputs
  /\ heap0 = Load(arg0, <<>>).h
  /\ heap = heap0
  /\ arg = Load(arg0, <<>>).v
  /\ argT = TypeOf(arg)
  /\ xf \in Transforms
  /\ fld = NoField

InitField ==
  /\ pc = "callField"
  /\ arg0 = VInvalid
  /\ heap0 = <<>>
  /\ heap = <<>>
  /\ arg = VInvalid
  /\ argT = TAny
  /\ xf = "strings"
  /\ fld \in Fields

Init ==
  /\ sens \in Preds
  /\ out = NoOut
  /\ tlog = <<>>
  /\ plog = <<>>
  /\ fres = NoRes
  /\ again = NoOut
  /\ conc = NoConc
  /\ (InitRedact \/ InitField)

\* The call has ended as r: what it returned is kept (in out for the first
\* call, in again for the second) and its effects are those on the heap and
\* the calls it made of the two callbacks.
Ended(r, first) ==
  /\ IF first
     THEN out' = [st |-> r.st, v |-> r.v, nc |-> r.s.nc, md |-> r.s.md] /\ again' = again
     ELSE again' = [st |-> r.st, v |-> r.v, nc |-> r.s.nc, md |-> r.s.md] /\ out' = out
  /\ heap' = r.s.h
  /\ tlog' = tlog \o r.s.tl
  /\ plog' = plog \o r.s.pl

\* result := Redact(arg, isSensitive, redactValue)
CallRedact ==
  /\ pc = "callRedact"
  /\ \E ord \in Orders(KeysIn(arg0)) :
       Ended(Redact(arg, argT, [sens |-> sens, xf |-> xf, ord |-> ord], heap), TRUE)
  /\ pc' = "redacted"
  /\ UNCHANGED <<arg, argT, arg0, heap0, sens, xf, fld, fres, conc>>

\* second := Redact(result, isSensitive, redactValue), once the first call
\* has returned.
CallRedactAgain ==
  /\ pc = "redacted"
  /\ out.st = "returned"
  /\ \E ord \in Orders(KeysIn(Snapshot(out.v, heap))) :
       Ended(Redact(out.v, argT, [sens |-> sens, xf |-> xf, ord |-> ord], heap), FALSE)
  /\ pc' = "redactedAgain"
  /\ UNCHANGED <<arg, argT, arg0, heap0, sens, xf, fld, fres, conc>>

\* isFieldSensitive(fld, isSensitive)
CallIsFieldSensitive ==
  /\ pc = "callField"
  /\ fres' = isFieldSensitive(fld, sens)
  /\ plog' = isFieldSensitive(fld, sens).calls
  /\ pc' = "resolved"
  /\ UNCHANGED <<heap, arg, argT, arg0, heap0, sens, xf, out, tlog, fld, again, conc>>

Next == CallRedact \/ CallRedactAgain \/ CallIsFieldSensitive

Spec == Init /\ [][Next]_vars

(***************************************************************************)
(* Two calls of Redact on one input, running concurrently.  A call is the  *)
(* sequence of allocations and stores it makes, in program order; a step   *)
(* of the system is one allocation or store of one call, on the heap both  *)
(* calls share.  An allocation yields the next free address of the shared  *)
(* heap, so the addresses a call is given depend on the interleaving: rel  *)
(* maps the addresses of the call run alone to those it is given here.     *)
(***************************************************************************)
Procs == {1, 2}

\* The inputs and predicates of the concurrent calls.
ConcTypes ==
  {TStruct("Ptrs"), TStruct("PBox"), TPtr(TStruct("User")),
   TSlice(TPtr(TStruct("Inner"))), TMap(TString, TString)}
ConcInputs == UNION {TreesOf(t) : t \in ConcTypes}
ConcPreds == SUBSET {nPw, npw}

\* The value v and the cell c with their addresses mapped by rel.
RECURSIVE Reloc(_, _)
Reloc(v, rel) ==
  CASE v.k \in {"string", "int", "bool", "invalid"} -> v
    [] v.k \in {"ptr", "map", "slice"} -> [v EXCEPT !.a = IF @ = 0 THEN 0 ELSE rel[@]]
    [] v.k = "iface" -> IF v.nil THEN v ELSE [v EXCEPT !.v = Reloc(@, rel)]
    [] v.k = "struct" -> [v EXCEPT !.f = [i \in 1..Len(v.f) |-> Reloc(v.f[i], rel)]]
    [] v.k = "array" -> [v EXCEPT !.e = [i \in 1..Len(v.e) |-> Reloc(v.e[i], rel)]]

RelocCell(c, rel) ==
  CASE c.c = "ptr" -> PtrCell(Reloc(c.v, rel))
    [] c.c = "map" -> MapCell([key \in DOMAIN c.m |-> Reloc(c.m[key], rel)])
    [] c.c = "slice" -> SliceCell([i \in 1..Len(c.e) |-> Reloc(c.e[i], rel)])

InitConc ==
  /\ pc = "concurrent"
  /\ arg0 \in ConcInputs
  /\ heap0 = Load(arg0, <<>>).h
  /\ heap = heap0
  /\ arg = Load(arg0, <<>>).v
  /\ argT = TypeOf(arg)
  /\ sens \in ConcPreds
  /\ xf \in Transforms
  /\ out = NoOut /\ again = NoOut
  /\ tlog = <<>> /\ plog = <<>>
  /\ fld = NoField /\ fres = NoRes
  /\ \E ords \in [Procs -> Orders(KeysIn(arg0))] :
       conc = [solo |-> [p \in Procs |->
                          Redact(arg, argT, [sens |-> sens, xf |-> xf, ord |-> ords[p]],
                                 heap0)],
               pos |-> [p \in Procs |-> 0],
               rel |-> [p \in Procs |-> [a \in 1..Len(heap0) |-> a]],
               own |-> [a \in 1..Len(heap0) |-> 0],
               ret |-> [p \in Procs |-> NoOut],
               foreign |-> FALSE]

\* The next allocation or store of call p.
Program(p) == conc.solo[p].s.ops
Running(p) == pc = "concurrent" /\ conc.pos[p] < Len(Program(p))
NextOp(p) == Program(p)[conc.pos[p] + 1]

\* reflect.New, reflect.MakeMap, reflect.MakeSlice: a fresh cell of the
\* shared heap, owned by call p.
Allocate(p) ==
  /\ Running(p)
  /\ NextOp(p).op = "new"
  /\ heap' = Append(heap, RelocCell(NextOp(p).c, conc.rel[p]))
  /\ conc' = [conc EXCEPT !.pos[p] = @ + 1,
                          !.rel[p] = Append(@, Len(heap) + 1),
                          !.own = Append(@, p)]
  /\ UNCHANGED <<pc, arg, argT, arg0, heap0, sens, xf, out, tlog, plog, fld, fres, again>>

\* ptr.Elem().Set, SetMapIndex, Index(i).Set: a store of call p into the
\* cell it addresses; foreign records a store into a cell p does not own.
Store(p) ==
  /\ Running(p)
  /\ NextOp(p).op \in {"setptr", "setmap", "setidx"}
  /\ LET o == NextOp(p)
         g == conc.rel[p][o.a]
         x == Reloc(o.x, conc.rel[p])
     IN /\ heap' = CASE o.op = "setptr" -> [heap EXCEPT ![g] = PtrCell(x)]
                      [] o.op = "setmap" -> SetMapIndex(StartState(heap), g, o.key, x).h
                      [] o.op = "setidx" -> SetIndex(StartState(heap), g, o.i, x).h
        /\ conc' = [conc EXCEPT !.pos[p] = @ + 1,
                                !.foreign = @ \/ conc.own[g] # p]
  /\ UNCHANGED <<pc, arg, argT, arg0, heap0, sens, xf, out, tlog, plog, fld, fres, again>>

\* return result.(T), or the panic that ended the call.
Return(p) ==
  /\ pc = "concurrent"
  /\ conc.pos[p] = Len(Program(p))
  /\ conc.ret[p].st = "none"
  /\ conc' = [conc EXCEPT !.ret[p] = [st |-> conc.solo[p].st,
                                      v |-> Reloc(conc.solo[p].v, conc.rel[p]),
                                      nc |-> conc.solo[p].s.nc,
                                      md |-> conc.solo[p].s.md]]
  /\ UNCHANGED <<pc, heap, arg, argT, arg0, heap0, sens, xf, out, tlog, plog, fld, fres,
                 again>>

NextConc == \E p \in Procs : Allocate(p) \/ Store(p) \/ Return(p)

SpecConc == InitConc /\ [][NextConc]_vars

(***************************************************************************)
(* Redact on values that may refer to themselves.  Such a value is not the *)
(* value of a composite literal: the caller builds it by assignment        *)
(* (n.In = n, m["id"] = m, s[0] = s, *p = p), so the input is given by its *)
(* heap.                                                                   *)
(***************************************************************************)
NodeT == TStruct("Node")
AnyMapT == TMap(TString, TAny)
AnySliceT == TSlice(TAny)
AnyPtrT == TPtr(TAny)
Links == 0..2

\* Two Node values, each field In and Pw nil or pointing at either of them.
NodeCell(in, pw) ==
  PtrCell(VStruct(NodeT, <<VStr(<<"a">>), VPtr(TPtr(NodeT), in), VPtr(TPtr(NodeT), pw)>>))
NodeHeaps ==
  {<<NodeCell(c[1], c[2]), NodeCell(c[3], c[4])>> : c \in [1..4 -> Links]}
\* A map[string]any whose entries "id" and "pw", where present, hold a
\* string or the map itself.
MapEntries == {VIface(VStr(<<"a">>)), VIface(VMap(AnyMapT, 1))}
MapHeaps ==
  UNION {{<<MapCell(m)>> : m \in [ks -> MapEntries]}
           : ks \in SUBSET {VStr(nid), VStr(npw)} \ {{}}}
\* A []any whose one element is a string or the slice itself, and a *any
\* holding a string or the pointer itself.
SliceHeaps ==
  {<<SliceCell(<<e>>)>> : e \in {VIface(VStr(<<"a">>)), VIface(VSlice(AnySliceT, 1, 1, 1))}}
BoxHeaps == {<<PtrCell(e)>> : e \in {VIface(VStr(<<"a">>)), VIface(VPtr(AnyPtrT, 1))}}

\* The heaps and, for each, the values the caller may pass: the pointer to
\* the first Node or the first Node itself, the map, the slice, the pointer.
GraphArgs(h) ==
  CASE h \in NodeHeaps -> {VPtr(TPtr(NodeT), 1), h[1].v}
    [] h \in MapHeaps -> {VMap(AnyMapT, 1)}
    [] h \in SliceHeaps -> {VSlice(AnySliceT, 1, 1, 1)}
    [] h \in BoxHeaps -> {VPtr(AnyPtrT, 1)}
GraphHeaps == NodeHeaps \cup MapHeaps \cup SliceHeaps \cup BoxHeaps
GraphKeys(h) ==
  UNION {IF h[a].c = "map" THEN DOMAIN h[a].m ELSE {} : a \in 1..Len(h)}
\* The predicates of interest for these values: the field Pw, the key "pw".
GraphPreds == SUBSET {nPw, npw, nIn}

InitGraph ==
  /\ pc = "callOnGraph"
  /\ heap0 \in GraphHeaps
  /\ heap = heap0
  /\ arg \in GraphArgs(heap0)
  /\ argT = TypeOf(arg)
  /\ arg0 = VInvalid
  /\ sens \in GraphPreds
  /\ xf \in Transforms
  /\ out = NoOut
  /\ tlog = <<>>
  /\ plog = <<>>
  /\ fld = NoField
  /\ fres = NoRes
  /\ again = NoOut
  /\ conc = NoConc

\* result := Redact(arg, isSensitive, redactValue).  When the recursion has
\* no end the call produces no result: out.st is "diverges", and the heap is
\* that at the moment the recursion first repeats a call.
CallRedactOnGraph ==
  /\ pc = "callOnGraph"
  /\ \E ord \in Orders(GraphKeys(heap0)) :
       Ended(Redact(arg, argT, [sens |-> sens, xf |-> xf, ord |-> ord], heap), TRUE)
  /\ pc' = "redactedOnGraph"
  /\ UNCHANGED <<arg, argT, arg0, heap0, sens, xf, fld, fres, conc>>

NextGraph == CallRedactOnGraph

SpecGraph == InitGraph /\ [][NextGraph]_vars

(***************************************************************************)
(* Definitions shared by the properties.                                   *)
(***************************************************************************)
Returned == pc = "redacted" /\ out.st = "returned"
Scalars == {"string", "int", "bool"}

\* The name portion of a tag value: what precedes its first comma.
NamePortion(tv) ==
  LET commas == {i \in 1..Len(tv) : tv[i] = Comma}
  IN IF commas = {} THEN tv
     ELSE SubSeq(tv, 1, (CHOOSE i \in commas : \A j \in commas : i <= j) - 1)

\* A field is sensitive by its name or through one of the recognised tags.
SensitiveByTag(f, sn, tk) ==
  /\ f.tags[tk] # Empty
  /\ NamePortion(f.tags[tk]) # Dash
  /\ NamePortion(f.tags[tk]) \in sn

SensitiveBySpec(f, sn) ==
  f.name \in sn \/ \E tk \in {"json", "xml", "yaml", "form", "query", "db", "bson"} :
                     SensitiveByTag(f, sn, tk)

\* C1: the input is not mutated: after Redact the input denotes the tree it
\* denoted before the call, and no cell of the heap that existed before the
\* call has been written.
NonMutation ==
  pc = "redacted" =>
    /\ Snapshot(arg, heap) = arg0
    /\ Len(heap) >= Len(heap0)
    /\ \A a \in 1..Len(heap0) : heap[a] = heap0[a]

\* A call that went through the dereference of a sensitive pointer field and
\* produced a result that differs from the input.
NonMutationWitness ==
  /\ Returned
  /\ arg0.k = "struct" /\ arg0.t = TStruct("Ptrs")
  /\ nPw \in sens /\ xf = "strings"
  /\ ~arg0.f[2].nil
  /\ Snapshot(out.v, heap) # arg0

\* C6: isFieldSensitive returns true exactly when the predicate accepts the
\* field name or the name portion of a non-empty json, xml, yaml, form,
\* query, db or bson tag other than "-"; and Redact then transforms a string
\* field exactly when that holds.
FieldSensitiveIff ==
  /\ pc = "resolved" => (fres.ret <=> SensitiveBySpec(fld, sens))
  /\ (Returned /\ arg0.k = "struct" /\ xf = "stars") =>
        \A i \in 1..Len(arg0.f) :
          LET f == StructDef(arg0.t.name)[i] IN
          (f.exported /\ f.type = TString) =>
             (out.v.f[i] = VStr(Stars) <=> SensitiveBySpec(f, sens))

\* A field whose name and first tag are not sensitive, found sensitive
\* through a later tag that carries options.
FieldSensitiveIffWitness ==
  /\ pc = "resolved"
  /\ fres.ret
  /\ fld.name \notin sens
  /\ fld.tags["json"] = <<",", "o">> /\ Empty \notin sens
  /\ fld.tags["db"] = tagPwOpt

\* C7: a tag named "-" never makes a field sensitive: the predicate is not
\* asked about it, the tags after it are still checked, and a field with a
\* non-sensitive name whose only tag is json:"-" is returned unchanged.
DashTagIgnored ==
  /\ pc = "resolved" =>
       /\ \A i \in 2..Len(fres.calls) : fres.calls[i] # Dash
       /\ (/\ fld.name \notin sens
           /\ \A tk \in TagKeys : fld.tags[tk] # Empty => NamePortion(fld.tags[tk]) = Dash)
          => ~fres.ret
       /\ (\E tk \in TagKeys : SensitiveByTag(fld, sens, tk)) => fres.ret
  /\ (Returned /\ arg0.k = "struct" /\ arg0.t = TStruct("Tagged")) =>
       out.v.f[2] = arg0.f[2]

\* The predicate accepts "-", a tag named "-" comes first, and a later tag
\* makes the field sensitive.
DashTagIgnoredWitness ==
  /\ pc = "resolved"
  /\ Dash \in sens
  /\ fld.name \notin sens
  /\ fld.tags["json"] = <<"-", ",", "o">>
  /\ fld.tags["bson"] = npw
  /\ fres.ret
  /\ fres.calls = <<fld.name, npw>>

\* C9: a top-level string, int or bool is returned as it is, for every
\* predicate and transform, and the transform is not invoked.
TopScalar ==
  \/ arg0.k \in Scalars
  \/ arg0.k = "iface" /\ ~arg0.nil /\ arg0.v.k \in Scalars

BareScalarPassthrough ==
  (pc = "redacted" /\ TopScalar) =>
     /\ out.st = "returned"
     /\ out.v = arg0
     /\ tlog = <<>>
     /\ plog = <<>>

\* A bare string, a predicate true of every name and a transform that
\* rewrites every string.
BareScalarPassthroughWitness ==
  /\ Returned
  /\ arg0 = VStr(<<"a">>)
  /\ sens = PredNames
  /\ xf = "stars"

(***************************************************************************)
(* Properties of struct fields.                                            *)
(***************************************************************************)
FieldDesc(i) == StructDef(arg0.t.name)[i]
FieldIsSensitive(i) == isFieldSensitive(FieldDesc(i), sens).ret
HoldsPointer(v) == v.k = "ptr" /\ v.a # 0
\* The transform's result can be stored in a slot of type T.
Storable(r, T) == r.k # "invalid" /\ AssignableTo(TypeOf(r), T)

\* The predicate is asked about every exported field by its declared name.
DeclaredNamesAsked ==
  \A i \in 1..Len(arg0.f) :
    FieldDesc(i).exported => \E j \in 1..Len(plog) : plog[j] = FieldDesc(i).name

NonSensitiveScalarsKept ==
  \A i \in 1..Len(arg0.f) :
    (FieldDesc(i).exported /\ ~FieldIsSensitive(i) /\ arg.f[i].k \in Scalars)
      => out.v.f[i] = arg.f[i]

PtrFieldFresh(i) ==
  LET pointee == heap0[arg.f[i].a].v IN
  /\ \E j \in 1..Len(tlog) : tlog[j] = Interface(pointee)
  /\ \A j \in 1..Len(tlog) : tlog[j] # arg.f[i]
  /\ out.v.f[i].k = "ptr"
  /\ out.v.f[i].a # arg.f[i].a
  /\ out.v.f[i].a > Len(heap0)
  /\ heap[arg.f[i].a] = heap0[arg.f[i].a]

KeyNamedSensitive(key) == key.k = "string" /\ key.s \in sens

Alone(value) ==
  redactReflectValue(value, [sens |-> sens, xf |-> xf, ord |-> <<>>],
                     StartState(heap0))
AloneTree(value, T) == Snapshot(Stored(Alone(value).v, T), Alone(value).st.h)

TopStringMap == arg.k = "map" /\ arg.a # 0 /\ arg.t.kt = TString

\* C3: for a non-nil map with string keys the result is a new map with the
\* key set of the input, for every transform; under a key the predicate
\* accepts the value is transform(raw input value), under every other key
\* it is the recursive redaction of the input value.
MapSameKeysTransformed ==
  (Returned /\ TopStringMap) =>
     /\ out.v.k = "map" /\ out.v.a > Len(heap0)
     /\ DOMAIN heap[out.v.a].m = DOMAIN heap0[arg.a].m
     /\ \A key \in DOMAIN heap0[arg.a].m :
          LET value == heap0[arg.a].m[key] IN
          IF key.s \in sens
          THEN heap[out.v.a].m[key] = Stored(ApplyXf(xf, Interface(value)), arg.t.e)
          ELSE Alone(value).ok
               /\ Snapshot(heap[out.v.a].m[key], heap) = AloneTree(value, arg.t.e)

TopSequence == arg.k = "array" \/ (arg.k = "slice" /\ arg.a # 0)
SeqLen(v) == IF v.k = "array" THEN Len(v.e) ELSE v.len
SeqElem(v, h, i) == IF v.k = "array" THEN v.e[i] ELSE h[v.a].e[i]

\* C5: for a non-nil slice or an array the result is a newly allocated
\* sequence of the same length, for a slice of the same capacity, whose
\* i-th element is the recursive redaction of the i-th element of the
\* input; a sequence of plain strings is returned with equal contents
\* whatever the predicate.
SequenceElementwise ==
  (pc = "redacted" /\ TopSequence
     /\ \A i \in 1..SeqLen(arg) : Alone(SeqElem(arg, heap0, i)).ok) =>
     /\ out.st = "returned"
     /\ out.v.k = arg.k /\ out.v.t = arg.t
     /\ SeqLen(out.v) = SeqLen(arg)
     /\ arg.k = "slice" => (out.v.a > Len(heap0) /\ out.v.cap = arg.cap)
     /\ \A i \in 1..SeqLen(arg) :
          Snapshot(SeqElem(out.v, heap, i), heap)
            = AloneTree(SeqElem(arg, heap0, i), arg.t.e)
     /\ arg.t.e = TString => Snapshot(out.v, heap) = arg0

\* A slice of two structs with spare capacity, the sensitive field of each
\* rewritten at its own position.
SequenceElementwiseWitness ==
  /\ Returned
  /\ arg.k = "slice" /\ arg.t = TSlice(TStruct("User"))
  /\ arg.len = 2 /\ arg.cap = 3
  /\ nPw \in sens /\ xf = "strings"
  /\ arg0.e[1].f[2] = VStr(<<"a">>)
  /\ out.v.cap = 3
  /\ \A i \in 1..2 : heap[out.v.a].e[i].f[2] = VStr(Stars)

\* What the claim of nesting requires of a sensitive slot of type T holding
\* u in the input and w in the result: w is the transform of u (of the
\* pointee, for a non-nil pointer), whenever that can be stored in the slot.
SlotTransformed(u, w, T) ==
  IF u.k = "ptr" /\ ~u.nil
  THEN LET r == ApplyXf(xf, Interface(u.v))
       IN Storable(r, T.e) => (w.k = "ptr" /\ ~w.nil /\ w.v = Stored(r, T.e))
  ELSE LET r == ApplyXf(xf, Interface(u))
       IN Storable(r, T) => w = Stored(r, T)

\* The input tree u and the result tree w agree as the claim of nesting
\* requires: leaves are equal, sensitive exported fields and sensitive
\* string keys are transformed, everything else is descended into.
RECURSIVE NestedOk(_, _)
NestedOk(u, w) ==
  CASE u.k \in Scalars -> w = u
    [] u.k \in {"iface", "ptr"} ->
         IF u.nil THEN w = u
         ELSE w.k = u.k /\ ~w.nil /\ NestedOk(u.v, w.v)
    [] u.k = "array" ->
         w.k = "array" /\ \A i \in 1..Len(u.e) : NestedOk(u.e[i], w.e[i])
    [] u.k = "slice" ->
         IF u.nil THEN w = u
         ELSE /\ w.k = "slice" /\ ~w.nil /\ Len(w.e) = Len(u.e)
              /\ \A i \in 1..Len(u.e) : NestedOk(u.e[i], w.e[i])
    [] u.k = "map" ->
         IF u.nil THEN w = u
         ELSE /\ w.k = "map" /\ ~w.nil /\ DOMAIN w.m = DOMAIN u.m
              /\ \A key \in DOMAIN u.m :
                   IF key.k = "string" /\ key.s \in sens
                   THEN SlotTransformed(u.m[key], w.m[key], u.t.e)
                   ELSE NestedOk(u.m[key], w.m[key])
    [] u.k = "struct" ->
         /\ w.k = "struct"
         /\ \A i \in 1..Len(u.f) :
              LET f == StructDef(u.t.name)[i] IN
              f.exported =>
                IF SensitiveBySpec(f, sens)
                THEN SlotTransformed(u.f[i], w.f[i], f.type)
                ELSE NestedOk(u.f[i], w.f[i])

\* C4: sensitive slots are found at any depth below non-sensitive slots: a
\* sensitive struct field or sensitive string map key under any combination
\* of struct fields, map values, elements, pointers and boxed values is
\* transformed in the result, and every non-sensitive leaf on the way equals
\* the leaf of the input.
NestedSensitiveFound ==
  Returned => NestedOk(arg0, Snapshot(out.v, heap))

(***************************************************************************)
(* Properties of the whole result: shape, sharing, failure.                *)
(***************************************************************************)
\* The result tree w has, node by node, the type of the input tree u.  A
\* boxed value is compared with the boxed value of the input when both
\* are present and of one type; the keys of a map are not part of its type.
RECURSIVE SameShape(_, _)
SameShape(u, w) ==
  /\ w.k = u.k
  /\ CASE u.k \in Scalars -> TRUE
       [] u.k = "iface" ->
            (~u.nil /\ ~w.nil /\ TypeOf(u.v) = TypeOf(w.v)) => SameShape(u.v, w.v)
       [] u.k = "ptr" ->
            w.t = u.t /\ ((~u.nil /\ ~w.nil) => SameShape(u.v, w.v))
       [] u.k = "struct" ->
            w.t = u.t /\ \A i \in 1..Len(u.f) : SameShape(u.f[i], w.f[i])
       [] u.k = "array" ->
            w.t = u.t /\ \A i \in 1..Len(u.e) : SameShape(u.e[i], w.e[i])
       [] u.k = "slice" ->
            /\ w.t = u.t
            /\ (~u.nil /\ ~w.nil) =>
                 /\ Len(w.e) = Len(u.e)
                 /\ \A i \in 1..Len(u.e) : SameShape(u.e[i], w.e[i])
       [] u.k = "map" ->
            /\ w.t = u.t
            /\ (~u.nil /\ ~w.nil) =>
                 \A key \in DOMAIN u.m \cap DOMAIN w.m : SameShape(u.m[key], w.m[key])

\* C11: shape preservation: for every input of static type T, Redact
\* returns a value of type T, each node of which has the type of the
\* corresponding node of the input, also below a pointer to an interface;
\* the conversion of the rebuilt value back to T always succeeds.
ShapePreserved ==
  pc = "redacted" =>
     /\ out.st = "returned"
     /\ TypeOf(out.v) = argT
     /\ SameShape(arg0, Snapshot(out.v, heap))

\* The addresses of the pointer targets, map stores and backing arrays
\* reachable from the value v in the heap h.
RECURSIVE Reach(_, _)
Reach(v, h) ==
  CASE v.k \in Scalars \cup {"invalid"} -> {}
    [] v.k = "iface" -> IF v.nil THEN {} ELSE Reach(v.v, h)
    [] v.k = "struct" -> UNION {Reach(v.f[i], h) : i \in 1..Len(v.f)}
    [] v.k = "array" -> UNION {Reach(v.e[i], h) : i \in 1..Len(v.e)}
    [] v.k = "ptr" -> IF v.a = 0 THEN {} ELSE {v.a} \cup Reach(h[v.a].v, h)
    [] v.k = "map" ->
         IF v.a = 0 THEN {}
         ELSE {v.a} \cup UNION {Reach(h[v.a].m[key], h) : key \in DOMAIN h[v.a].m}
    [] v.k = "slice" ->
         IF v.a = 0 THEN {}
         ELSE {v.a} \cup UNION {Reach(h[v.a].e[i], h) : i \in 1..Len(h[v.a].e)}

\* C12: structural independence: for every input and transform, no pointer
\* target, map store or backing array reachable from the result is one
\* reachable from the input, values installed at sensitive slots included.
StructurallyIndependent ==
  Returned => Reach(out.v, heap) \cap Reach(arg, heap0) = {}

\* C13: Redact never fails: for a struct or a map, whatever the predicate,
\* and for every transform, one that returns nil or a value of another
\* type than the slot's included, the call returns a value and does not
\* panic.
NeverPanics ==
  (pc = "redacted" /\ arg0.k \in {"struct", "map"}) => out.st = "returned"

\* C14: in a map whose key type is not string no entry is treated as
\* sensitive, whatever the predicate: the predicate is not applied to the
\* keys, the transform is not applied to the values, and every value is
\* processed by ordinary recursion (a string value is kept as it is).
NonStringKeysNeverSensitive ==
  (pc = "redacted" /\ arg.k = "map" /\ arg.a # 0 /\ arg.t.kt # TString) =>
     /\ plog = <<>>
     /\ tlog = <<>>
     /\ out.st = "returned"
     /\ Snapshot(out.v, heap) = arg0

(***************************************************************************)
(* Properties of nil values, unexported fields and the callbacks' calls.   *)
(***************************************************************************)
NilRef(u) == u.k \in {"iface", "ptr", "slice", "map"} /\ u.nil

\* The tree u holds a nil somewhere.
RECURSIVE HasNil(_)
HasNil(u) ==
  CASE u.k \in Scalars -> FALSE
    [] u.k \in {"iface", "ptr"} -> u.nil \/ HasNil(u.v)
    [] u.k = "struct" -> \E i \in 1..Len(u.f) : HasNil(u.f[i])
    [] u.k = "array" -> \E i \in 1..Len(u.e) : HasNil(u.e[i])
    [] u.k = "slice" -> u.nil \/ \E i \in 1..Len(u.e) : HasNil(u.e[i])
    [] u.k = "map" -> u.nil \/ \E key \in DOMAIN u.m : HasNil(u.m[key])

\* Every nil of the input tree u that sits at a non-sensitive position is
\* the same nil in the result tree w.  The positions that are not descended
\* into are the sensitive fields, the unexported fields and the sensitive
\* string keys.
RECURSIVE NilsKept(_, _)
NilsKept(u, w) ==
  IF NilRef(u) THEN w = u
  ELSE CASE u.k \in Scalars -> TRUE
         [] u.k \in {"iface", "ptr"} -> w.k = u.k /\ ~w.nil /\ NilsKept(u.v, w.v)
         [] u.k = "struct" ->
              \A i \in 1..Len(u.f) :
                LET f == StructDef(u.t.name)[i] IN
                (f.exported /\ ~SensitiveBySpec(f, sens)) => NilsKept(u.f[i], w.f[i])
         [] u.k = "array" -> \A i \in 1..Len(u.e) : NilsKept(u.e[i], w.e[i])
         [] u.k = "slice" ->
              /\ w.k = "slice" /\ ~w.nil /\ Len(w.e) = Len(u.e)
              /\ \A i \in 1..Len(u.e) : NilsKept(u.e[i], w.e[i])
         [] u.k = "map" ->
              /\ w.k = "map" /\ ~w.nil
              /\ \A key \in DOMAIN u.m :
                   (~(key.k = "string" /\ key.s \in sens) /\ HasNil(u.m[key]))
                     => (key \in DOMAIN w.m /\ NilsKept(u.m[key], w.m[key]))

\* C15: a nil pointer, map, slice or interface, at top level or at a nested
\* non-sensitive position, is nil in the result; a top-level nil returns the
\* zero value of T with no call of the predicate or the transform; a nil
\* pointer field stays nil also when its name is sensitive and the
\* transform returns non-strings unchanged.
AbsentPropagated ==
  /\ (pc = "redacted" /\ NilRef(arg0)) =>
        /\ out.st = "returned"
        /\ out.v = ZeroOf(argT)
        /\ Snapshot(out.v, heap) = arg0
        /\ plog = <<>> /\ tlog = <<>>
  /\ Returned => NilsKept(arg0, Snapshot(out.v, heap))
  /\ (Returned /\ arg0.k = "struct" /\ xf = "strings") =>
        \A i \in 1..Len(arg0.f) :
          (FieldDesc(i).exported /\ arg0.f[i].k = "ptr" /\ arg0.f[i].nil)
            => out.v.f[i] = arg.f[i]

\* A struct whose sensitive pointer field is nil and whose other pointer
\* field is not: the transform is called with the nil pointer and the field
\* is nil in the result.
AbsentPropagatedWitness ==
  /\ Returned
  /\ arg0.k = "struct" /\ arg0.t = TStruct("Ptrs")
  /\ nPw \in sens /\ nId \notin sens /\ xf = "strings"
  /\ ~arg0.f[1].nil /\ arg0.f[2].nil
  /\ tlog = <<arg.f[2]>>
  /\ out.v.f[2].a = 0
  /\ out.v.f[1].a > Len(heap0)

\* Every unexported field of every struct of the tree w is the zero value
\* of its type.
RECURSIVE UnexportedZero(_)
UnexportedZero(w) ==
  CASE w.k \in Scalars -> TRUE
    [] w.k \in {"iface", "ptr"} -> w.nil \/ UnexportedZero(w.v)
    [] w.k = "array" -> \A i \in 1..Len(w.e) : UnexportedZero(w.e[i])
    [] w.k = "slice" -> w.nil \/ \A i \in 1..Len(w.e) : UnexportedZero(w.e[i])
    [] w.k = "map" -> w.nil \/ \A key \in DOMAIN w.m : UnexportedZero(w.m[key])
    [] w.k = "struct" ->
         \A i \in 1..Len(w.f) :
           LET f == StructDef(w.t.name)[i] IN
           IF f.exported THEN UnexportedZero(w.f[i])
           ELSE w.f[i] = Snapshot(ZeroOf(f.type), <<>>)

\* The same for the structs of w that are not below a sensitive field or a
\* sensitive string key.
RECURSIVE UnexportedZeroOutsideSensitive(_)
UnexportedZeroOutsideSensitive(w) ==
  CASE w.k \in Scalars -> TRUE
    [] w.k \in {"iface", "ptr"} -> w.nil \/ UnexportedZeroOutsideSensitive(w.v)
    [] w.k = "array" -> \A i \in 1..Len(w.e) : UnexportedZeroOutsideSensitive(w.e[i])
    [] w.k = "slice" ->
         w.nil \/ \A i \in 1..Len(w.e) : UnexportedZeroOutsideSensitive(w.e[i])
    [] w.k = "map" ->
         w.nil \/ \A key \in DOMAIN w.m :
                    (key.k = "string" /\ key.s \in sens)
                      \/ UnexportedZeroOutsideSensitive(w.m[key])
    [] w.k = "struct" ->
         \A i \in 1..Len(w.f) :
           LET f == StructDef(w.t.name)[i] IN
           IF ~f.exported THEN w.f[i] = Snapshot(ZeroOf(f.type), <<>>)
           ELSE SensitiveBySpec(f, sens) \/ UnexportedZeroOutsideSensitive(w.f[i])

\* The predicate calls and the transform calls of a struct of string fields:
\* those of its exported fields, in order.
RECURSIVE ExportedCalls(_, _)
ExportedCalls(name, i) ==
  IF i > Len(StructDef(name)) THEN <<>>
  ELSE LET f == StructDef(name)[i] IN
       (IF f.exported THEN isFieldSensitive(f, sens).calls ELSE <<>>)
         \o ExportedCalls(name, i + 1)

RECURSIVE ExportedArgs(_, _)
ExportedArgs(v, i) ==
  IF i > Len(v.f) THEN <<>>
  ELSE LET f == StructDef(v.t.name)[i] IN
       (IF f.exported /\ SensitiveBySpec(f, sens) THEN <<v.f[i]>> ELSE <<>>)
         \o ExportedArgs(v, i + 1)

UnexportedNeverAsked ==
  (Returned /\ arg0.k = "struct" /\ arg0.t = TStruct("Tagged")) =>
     /\ plog = ExportedCalls("Tagged", 1)
     /\ tlog = ExportedArgs(arg, 1)
     /\ \A i \in 1..Len(arg0.f) :
          (FieldDesc(i).exported /\ ~FieldIsSensitive(i)) => out.v.f[i] = arg.f[i]

FieldArg(u) == IF u.k = "ptr" /\ ~u.nil THEN Interface(u.v) ELSE Interface(u)

\* The values at the sensitive slots of the tree u, at every depth:
\* exported fields the resolver reports sensitive, and entries whose string
\* key the predicate accepts.
RECURSIVE SensitiveSlotValues(_)
SensitiveSlotValues(u) ==
  CASE u.k \in Scalars -> {}
    [] u.k \in {"iface", "ptr"} -> IF u.nil THEN {} ELSE SensitiveSlotValues(u.v)
    [] u.k = "array" -> UNION {SensitiveSlotValues(u.e[i]) : i \in 1..Len(u.e)}
    [] u.k = "slice" ->
         IF u.nil THEN {} ELSE UNION {SensitiveSlotValues(u.e[i]) : i \in 1..Len(u.e)}
    [] u.k = "map" ->
         IF u.nil THEN {}
         ELSE {Interface(u.m[key]) :
                 key \in {kk \in DOMAIN u.m : kk.k = "string" /\ kk.s \in sens}}
              \cup UNION {SensitiveSlotValues(u.m[key]) : key \in DOMAIN u.m}
    [] u.k = "struct" ->
         {FieldArg(u.f[i]) :
            i \in {j \in 1..Len(u.f) :
                     /\ StructDef(u.t.name)[j].exported
                     /\ isFieldSensitive(StructDef(u.t.name)[j], sens).ret}}
         \cup UNION {SensitiveSlotValues(u.f[i]) : i \in 1..Len(u.f)}

\* C17: the transform is invoked only on values at sensitive slots: every
\* argument it receives is the value (the pointee, for a non-nil pointer
\* field) of an exported field the resolver reports sensitive, or the value
\* of an entry whose string key the predicate accepts; never the top-level
\* value, a sequence element or the value of a non-sensitive field or key.
TransformOnlyAtSensitive ==
  pc = "redacted" =>
    \A i \in DOMAIN tlog : Snapshot(tlog[i], heap0) \in SensitiveSlotValues(arg0)

\* The tree u with every unexported struct field replaced by the zero value
\* of its type.
RECURSIVE ZeroUnexported(_)
ZeroUnexported(u) ==
  CASE u.k \in Scalars -> u
    [] u.k \in {"iface", "ptr"} ->
         IF u.nil THEN u ELSE [u EXCEPT !.v = ZeroUnexported(u.v)]
    [] u.k = "array" -> [u EXCEPT !.e = [i \in 1..Len(u.e) |-> ZeroUnexported(u.e[i])]]
    [] u.k = "slice" ->
         IF u.nil THEN u
         ELSE [u EXCEPT !.e = [i \in 1..Len(u.e) |-> ZeroUnexported(u.e[i])]]
    [] u.k = "map" ->
         IF u.nil THEN u
         ELSE [u EXCEPT !.m = [key \in DOMAIN u.m |-> ZeroUnexported(u.m[key])]]
    [] u.k = "struct" ->
         [u EXCEPT !.f = [i \in 1..Len(u.f) |->
                            IF StructDef(u.t.name)[i].exported
                            THEN ZeroUnexported(u.f[i])
                            ELSE Snapshot(ZeroOf(StructDef(u.t.name)[i].type), <<>>)]]

\* C18: if the predicate returns false for every name then, for every input
\* x, Redact(x) deep-equals x but for the unexported struct fields, which
\* are zero, and the transform is never invoked.
NothingSensitiveIdentity ==
  (pc = "redacted" /\ sens = {}) =>
     /\ out.st = "returned"
     /\ Snapshot(out.v, heap) = ZeroUnexported(arg0)
     /\ tlog = <<>>

(***************************************************************************)
(* Properties of repeated calls.                                           *)
(***************************************************************************)
\* Each transform of the model is idempotent on the values it can receive.
IdempotentTransform(f) ==
  \A v \in {VInvalid, VStr(Empty), VStr(<<"a">>), VStr(Stars), VInt(0), VInt(7)} :
    ApplyXf(f, ApplyXf(f, v)) = ApplyXf(f, v)

ConcurrentCallsIndependent ==
  pc = "concurrent" =>
    /\ ~conc.foreign
    /\ \A a \in 1..Len(heap0) : heap[a] = heap0[a]
    /\ Snapshot(arg, heap) = arg0
    /\ \A p \in Procs :
         conc.ret[p].st # "none" =>
           /\ conc.ret[p].st = conc.solo[p].st
           /\ conc.ret[p].st = "returned" =>
                Snapshot(conc.ret[p].v, heap)
                  = Snapshot(conc.solo[p].v, conc.solo[p].s.h)

\* Both calls have returned after steps that were interleaved: the first
\* call was given other addresses than when run alone, and its result
\* differs from the input.
ConcurrentCallsIndependentWitness ==
  /\ pc = "concurrent"
  /\ \A p \in Procs : conc.ret[p].st = "returned"
  /\ conc.ret[1].v # conc.solo[1].v
  /\ conc.ret[2].v # conc.solo[2].v
  /\ Snapshot(conc.ret[1].v, heap) # arg0
  /\ Len(heap) > Len(conc.solo[1].s.h)

(***************************************************************************)
(* Properties of sensitive slots holding composite values.                 *)
(***************************************************************************)
\* C21: a sensitive-named slot is transformed at any depth, whether or not
\* an ancestor field name was sensitive: when an exported field with a
\* sensitive name holds a struct and the transform returns non-strings
\* unchanged, the traversal recurses into that struct, so every exported
\* sensitive string field inside it is transformed in the result.
SensitiveBelowSensitive ==
  (Returned /\ xf = "strings" /\ arg0.k = "struct") =>
    \A i \in 1..Len(arg0.f) :
      (FieldDesc(i).exported /\ FieldIsSensitive(i) /\ arg.f[i].k = "struct") =>
        \A j \in 1..Len(arg.f[i].f) :
          LET f == StructDef(arg.f[i].t.name)[j] IN
          (f.exported /\ f.type = TString /\ isFieldSensitive(f, sens).ret)
            => out.v.f[i].f[j] = VStr(Stars)

\* The recursive redaction of a value of the input on its own, the maps
\* visited in the order ord.
AloneIn(value, ord) ==
  redactReflectValue(value, [sens |-> sens, xf |-> xf, ord |-> ord], StartState(heap0))
AloneInTree(value, ord, T) ==
  Snapshot(Stored(AloneIn(value, ord).v, T), AloneIn(value, ord).st.h)

\* The transform's result at the sensitive field i is not nil and not
\* assignable to the type of the field, of the pointee for a non-nil pointer.
FieldMismatch(i) ==
  LET target == IF HoldsPointer(arg.f[i]) THEN heap0[arg.f[i].a].v ELSE arg.f[i]
      r == ApplyXf(xf, Interface(target))
  IN /\ FieldDesc(i).exported /\ FieldIsSensitive(i)
     /\ r.k # "invalid"
     /\ ~AssignableTo(TypeOf(r), TypeOf(target))

\* C22: when the non-nil result of the transform at a sensitive struct field
\* is not assignable to the field's type (for a pointer field, to the
\* pointee type), the result is discarded: the ordinary recursive redaction
\* of the original field value yields a value, the output field equals it
\* (sensitive slots inside it transformed), and the call returns a value of
\* the struct type.
MismatchFallsBack ==
  (pc = "redacted" /\ arg0.k = "struct") =>
    \A i \in 1..Len(arg0.f) :
      FieldMismatch(i) =>
        /\ \A ord \in Orders(KeysIn(arg0)) : AloneIn(arg.f[i], ord).ok
        /\ out.st = "returned" =>
             /\ TypeOf(out.v) = argT
             /\ \E ord \in Orders(KeysIn(arg0)) :
                  Snapshot(out.v.f[i], heap)
                    = AloneInTree(arg.f[i], ord, FieldDesc(i).type)

(***************************************************************************)
(* Properties of the order of the predicate's calls.                       *)
(***************************************************************************)
\* The names isFieldSensitive may ask about for field f, in order: the field
\* name, then the name portions of the tags json, xml, yaml, form, query, db
\* and bson that are set and not named "-".
RECURSIVE TagNamesFrom(_, _)
TagNamesFrom(f, order) ==
  IF order = <<>> THEN <<>>
  ELSE (IF f.tags[Head(order)] # Empty /\ NamePortion(f.tags[Head(order)]) # Dash
        THEN <<NamePortion(f.tags[Head(order)])>> ELSE <<>>)
       \o TagNamesFrom(f, Tail(order))
Askable(f) ==
  <<f.name>> \o TagNamesFrom(f, <<"json", "xml", "yaml", "form", "query", "db", "bson">>)

\* The calls made when the names of seq are asked in order up to the first
\* one the predicate accepts.
UpToFirstTrue(seq, sn) ==
  LET hits == {i \in 1..Len(seq) : seq[i] \in sn}
  IN IF hits = {} THEN seq
     ELSE SubSeq(seq, 1, CHOOSE i \in hits : \A j \in hits : i <= j)

\* C23: for one struct field the predicate is called first with the field
\* name, then with the tag names in the order json, xml, yaml, form, query,
\* db, bson, tags that are absent, empty or named "-" being skipped; the
\* calls stop at the first one that returns true, which is then the last
\* call and the only accepted one, and there are at most 8 calls.
PredicateCallOrder ==
  pc = "resolved" =>
    /\ fres.calls = UpToFirstTrue(Askable(fld), sens)
    /\ plog = fres.calls
    /\ Len(fres.calls) <= 8
    /\ \A i \in 1..(Len(fres.calls) - 1) : fres.calls[i] \notin sens
    /\ fres.ret <=> fres.calls[Len(fres.calls)] \in sens

\* A field with all seven tags set, found sensitive through its form tag:
\* the name and the json, xml and yaml names were asked before it, in that
\* order, and the query, db and bson names were not asked.
PredicateCallOrderWitness ==
  /\ pc = "resolved"
  /\ fld.tags = AllTags
  /\ sens = {npw}
  /\ fres.ret
  /\ fres.calls = <<nPw, <<"j">>, <<"x">>, Empty, npw>>

\* ------------------------------------------------------------------------
\* C24.  For every finite acyclic input and terminating callbacks Redact
\* terminates, and the calls of redactReflectValue never nest deeper than
\* the values of the input do.  The inputs of Spec are finite trees loaded
\* into the heap and its callbacks are total.  The call ends (it returns or
\* panics; its recursion never repeats an active call), it makes at most one
\* call of redactReflectValue for each value of the input, and the greatest
\* number of calls active at once is at most the nesting depth of the value
\* handed to reflect.ValueOf, a scalar or a nil container counting as 1.
RECURSIVE NestingDepth(_)
RECURSIVE NodeCount(_)
MaxOf(S) == IF S = {} THEN 0 ELSE CHOOSE x \in S : \A y \in S : y <= x
RECURSIVE SumSeq(_, _)
SumSeq(seq, i) == IF i > Len(seq) THEN 0 ELSE seq[i] + SumSeq(seq, i + 1)
Children(tr) ==
  CASE tr.k \in {"string", "int", "bool", "invalid"} -> <<>>
    [] tr.k \in {"iface", "ptr"} -> IF tr.nil THEN <<>> ELSE <<tr.v>>
    [] tr.k = "struct" -> tr.f
    [] tr.k = "array" -> tr.e
    [] tr.k = "slice" -> IF tr.nil THEN <<>> ELSE tr.e
    [] tr.k = "map" -> IF tr.nil THEN <<>> ELSE [i \in 1..Len(SetToSeq(DOMAIN tr.m)) |-> tr.m[SetToSeq(DOMAIN tr.m)[i]]]
NestingDepth(tr) ==
  1 + MaxOf({NestingDepth(Children(tr)[i]) : i \in 1..Len(Children(tr))})
NodeCount(tr) ==
  1 + SumSeq([i \in 1..Len(Children(tr)) |-> NodeCount(Children(tr)[i])], 1)
\* The value reflect.ValueOf(arg) starts from: what the interface holds.
TopValue == IF arg0.k = "iface" /\ ~arg0.nil THEN arg0.v ELSE arg0
TerminatesWithinDepth ==
  pc = "redacted" =>
    /\ out.st \in {"returned", "panic"}
    /\ out.nc <= NodeCount(TopValue)
    /\ out.md <= NestingDepth(TopValue)
TerminatesWithinDepthWitness ==
  /\ pc = "redacted"
  /\ out.st = "returned"
  /\ arg0.k = "struct"
  /\ out.md = NestingDepth(arg0)
  /\ out.md >= 4
  /\ out.nc >= 5

\* ------------------------------------------------------------------------
\* C25.  Redact on a value that refers to itself never returns, whichever
\* slot carries the cycle.
\* The addresses a value refers to without passing through a cell, and
\* those among them that the traversal descends into whatever the transform
\* returns: slots that are not sensitive.
RECURSIVE Refs(_, _, _)
Refs(v, sn, all) ==
  CASE v.k \in {"ptr", "map", "slice"} -> IF v.a = 0 THEN {} ELSE {v.a}
    [] v.k = "iface" -> IF v.nil THEN {} ELSE Refs(v.v, sn, all)
    [] v.k = "array" -> UNION {Refs(v.e[i], sn, all) : i \in 1..Len(v.e)}
    [] v.k = "struct" ->
         UNION {IF all \/ (StructDef(v.t.name)[i].exported
                            /\ ~isFieldSensitive(StructDef(v.t.name)[i], sn).ret)
                THEN Refs(v.f[i], sn, all) ELSE {} : i \in 1..Len(v.f)}
    [] OTHER -> {}
CellRefs(h, a, sn, all) ==
  CASE h[a].c = "ptr" -> Refs(h[a].v, sn, all)
    [] h[a].c = "slice" -> UNION {Refs(h[a].e[i], sn, all) : i \in 1..Len(h[a].e)}
    [] h[a].c = "map" ->
         UNION {IF all \/ ~KeyCheck(key, [sens |-> sn]).ret
                THEN Refs(h[a].m[key], sn, all) ELSE {} : key \in DOMAIN h[a].m}
RECURSIVE Closure(_, _, _, _, _)
Closure(S, h, sn, all, n) ==
  IF n = 0 THEN S
  ELSE Closure(S \cup UNION {CellRefs(h, a, sn, all) : a \in S}, h, sn, all, n - 1)
CycleFrom(v, h, sn, all) ==
  \E a \in Closure(Refs(v, sn, all), h, sn, all, Len(h)) :
    a \in Closure(CellRefs(h, a, sn, all), h, sn, all, Len(h))
\* The input refers to itself through some slots / through slots that are
\* not sensitive.
Cyclic == CycleFrom(arg, heap0, sens, TRUE)
CyclicOutsideSensitive == CycleFrom(arg, heap0, sens, FALSE)

\* C25 as stated: on every cyclic input the call never returns.
CyclicNeverReturns ==
  (pc = "redactedOnGraph" /\ Cyclic) => out.st # "returned"

\* C25, amended: the call never returns when the cycle is carried by slots
\* that are not sensitive, and its recursion has no end unless the transform
\* returns nil (the call may then panic at a sensitive slot visited before
\* the cycle); when every cycle passes through a sensitive slot and the
\* transform rewrites strings only, the call returns.
CyclicOutsideSensitiveNeverReturns ==
  pc = "redactedOnGraph" =>
    /\ CyclicOutsideSensitive => out.st # "returned"
    /\ (CyclicOutsideSensitive /\ xf # "nil") => out.st = "diverges"
    /\ (xf = "strings" /\ Cyclic /\ ~CyclicOutsideSensitive) => out.st = "returned"
\* n := &Node{}; n.In = n, the field In not sensitive.
CyclicOutsideSensitiveWitness ==
  /\ pc = "redactedOnGraph"
  /\ arg = VPtr(TPtr(NodeT), 1)
  /\ heap0[1] = NodeCell(1, 0)
  /\ nPw \in sens
  /\ CyclicOutsideSensitive
  /\ out.st = "diverges"

\* ------------------------------------------------------------------------
\* C26.  In a map[string]*string, the value of a sensitive key that is a
\* non-nil pointer p is handed to the transform as the pointer p itself, not
\* as the string it points to; with the strings-only transform the result's
\* entry for the key is p, and the string p points to is the input's.  In a
\* struct, a sensitive field of type *string that is not nil has the string
\* it points to handed to the transform, and the result's field is a new
\* pointer to the transformed string.
PtrMapT == TMap(TString, TPtr(TString))
\* The map entries / struct fields the claim is about.
SensitivePtrKeys ==
  IF arg.k = "map" /\ arg.a # 0 /\ arg.t = PtrMapT
  THEN {key \in DOMAIN heap0[arg.a].m : KeyStr(key) \in sens /\ KeyStr(key) # Empty
                                          /\ heap0[arg.a].m[key].a # 0}
  ELSE {}
SensitivePtrFields ==
  IF arg.k = "struct" /\ arg.t = TStruct("Ptrs")
  THEN {i \in 1..Len(arg.f) : isFieldSensitive(StructDef("Ptrs")[i], sens).ret /\ arg.f[i].a # 0}
  ELSE {}
InLog(x) == \E j \in 1..Len(tlog) : tlog[j] = x
EmptyKey == VStr(Empty)
HasEmptyKey ==
  /\ pc = "redacted"
  /\ arg.k = "map" /\ arg.a # 0 /\ arg.t.kt = TString
  /\ EmptyKey \in DOMAIN heap0[arg.a].m
\* The keys of the input map that are treated as sensitive.
AcceptedKeys == {key \in DOMAIN heap0[arg.a].m : KeyStr(key) # Empty /\ KeyStr(key) \in sens}
SensitiveNilPtr(i) ==
  /\ StructDef(arg.t.name)[i].exported
  /\ isFieldSensitive(StructDef(arg.t.name)[i], sens).ret
  /\ arg.f[i].k = "ptr"
  /\ arg.f[i].a = 0
\* The transform was called with the nil pointer of field i once for each
\* sensitive field holding that nil pointer.
NilPtrCallsMatch(i) ==
  Cardinality({j \in 1..Len(tlog) : tlog[j] = arg.f[i]})
    = Cardinality({i2 \in 1..Len(arg.f) : SensitiveNilPtr(i2) /\ arg.f[i2] = arg.f[i]})
\* C28 as stated, for the calls that return.
SensitiveNilPtrField ==
  (Returned /\ arg.k = "struct") =>
    \A i \in 1..Len(arg.f) :
      SensitiveNilPtr(i) =>
        /\ NilPtrCallsMatch(i)
        /\ IsNil(out.v.f[i]) <=> (ApplyXf(xf, arg.f[i]) = arg.f[i])

\* C28, amended: the transform is invoked exactly once with the typed nil
\* pointer; the output field is that nil pointer when the transform returns
\* it and also when it returns a value of a type that cannot be assigned to
\* the field, and the call panics when the transform returns nil.
SensitiveNilPtrFieldKeptNil ==
  (pc = "redacted" /\ arg.k = "struct") =>
    \A i \in 1..Len(arg.f) :
      SensitiveNilPtr(i) =>
        /\ xf = "nil" => out.st = "panic"
        /\ out.st = "returned" =>
             /\ NilPtrCallsMatch(i)
             /\ out.v.f[i] = arg.f[i]
             /\ \/ ApplyXf(xf, arg.f[i]) = arg.f[i]
                \/ ~AssignableTo(TypeOf(ApplyXf(xf, arg.f[i])), TypeOf(arg.f[i]))
SensitiveNilPtrFieldWitness ==
  /\ Returned
  /\ arg.k = "struct"
  /\ arg.t = TStruct("Ptrs")
  /\ SensitiveNilPtr(2)
  /\ xf = "stars"
  /\ tlog = <<VPtr(TPtr(TString), 0)>>
  /\ out.v.f[2] = VPtr(TPtr(TString), 0)

\* ------------------------------------------------------------------------
\* C29.  The result of Redact does not depend on the order in which the
\* entries of the maps of the input are visited: for every order MapKeys
\* may return the keys in, the call ends the same way, and where it returns
\* the results are deep-equal (the callbacks of the model are pure).
OutcomeIn(r) == [st |-> r.st, v |-> Snapshot(r.v, r.s.h)]
OutcomeUnder(ord) ==
  OutcomeIn(Redact(arg, argT, [sens |-> sens, xf |-> xf, ord |-> ord], heap0))
OrderIndependent ==
  pc = "redacted" =>
    \A ord \in Orders(KeysIn(arg0)) :
      OutcomeUnder(ord) = [st |-> out.st, v |-> Snapshot(out.v, heap)]
\* A map of two entries, one under a sensitive key: the two orders ask the
\* predicate in different orders and give the same result.
OrderIndependentWitness ==
  /\ Returned
  /\ arg.k = "map" /\ arg.a # 0
  /\ DOMAIN heap0[arg.a].m = {VStr(npw), VStr(nid)}
  /\ npw \in sens
  /\ xf = "stars"
  /\ plog = <<npw, nid>>
  /\ \E ord \in Orders(KeysIn(arg0)) :
       /\ Redact(arg, argT, [sens |-> sens, xf |-> xf, ord |-> ord], heap0).s.pl = <<nid, npw>>
       /\ OutcomeUnder(ord) = [st |-> out.st, v |-> Snapshot(out.v, heap)]

\* ------------------------------------------------------------------------
\* C30.  Nil-ness of maps and slices is preserved in both directions: a
\* non-nil empty map or slice of the input yields a newly allocated non-nil
\* empty map or slice in the result, and a container of the result is nil
\* only if the corresponding container of the input is nil.
\* u is a value of the input (in heap0) and w the value at the same place of
\* the result (in heap); with every, all places are compared, otherwise
\* those the traversal reaches by recursion: not the unexported fields, the
\* sensitive fields and the sensitive keys.
IsEmpty(u, h) ==
  IF u.k = "slice" THEN u.len = 0 ELSE DOMAIN h[u.a].m = {}
RECURSIVE ContainersKept(_, _, _)
ContainersKept(u, w, every) ==
  IF w.k # u.k \/ TypeOf(w) # TypeOf(u) THEN TRUE
  ELSE CASE u.k = "iface" -> u.nil \/ w.nil \/ ContainersKept(u.v, w.v, every)
         [] u.k = "ptr" ->
              u.a = 0 \/ w.a = 0 \/ ContainersKept(heap0[u.a].v, heap[w.a].v, every)
         [] u.k = "struct" ->
              \A i \in 1..Len(u.f) :
                (every \/ (StructDef(u.t.name)[i].exported
                           /\ ~isFieldSensitive(StructDef(u.t.name)[i], sens).ret))
                  => ContainersKept(u.f[i], w.f[i], every)
         [] u.k = "array" -> \A i \in 1..Len(u.e) : ContainersKept(u.e[i], w.e[i], every)
         [] u.k \in {"slice", "map"} ->
              /\ (u.a = 0) <=> (w.a = 0)
              /\ (u.a # 0 /\ IsEmpty(u, heap0)) =>
                   (w.a > Len(heap0) /\ IsEmpty(w, heap))
              /\ (u.a # 0 /\ w.a # 0) =>
                   IF u.k = "slice"
                   THEN \A i \in 1..u.len :
                          i <= w.len => ContainersKept(heap0[u.a].e[i], heap[w.a].e[i], every)
                   ELSE \A key \in DOMAIN heap0[u.a].m \cap DOMAIN heap[w.a].m :
                          (every \/ ~KeyCheck(key, [sens |-> sens]).ret)
                            => ContainersKept(heap0[u.a].m[key], heap[w.a].m[key], every)
         [] OTHER -> TRUE
====
